---- MODULE Spec2Model ----
(***************************************************************************)
(* Request-scoped identity resolution and connection binding of            *)
(* retro_game_exchange (src/api/auth.rs, src/error.rs).                    *)
(*                                                                         *)
(* Strings are sequences of one-character strings.  A blake3 digest is     *)
(* modelled by the byte stream that was fed to the hasher (the hash is     *)
(* taken to be injective on its input stream).  A Basic payload is the     *)
(* text obtained after base64 decoding.                                    *)
(***************************************************************************)
EXTENDS Integers, Sequences, FiniteSets, TLC

\* ---------------------------------------------------------------- bounds
PoolSize == 1           \* connections owned by the pool

Reqs == {"r1", "r2"}    \* concurrently served request tasks
TaskNo == [r \in Reqs |-> IF r = "r1" THEN 1 ELSE 2]

\* credentials clients submit; ("a","bc") and ("ab","c") share their byte stream
Creds == {<<(<<"a">>), (<<"c">>)>>, <<(<<"a">>), (<<"b", "c">>)>>, <<(<<"a", "b">>), (<<"c">>)>>}

\* usernames and secrets of pure-function checks: the words of 1..MaxWord
\* letters over a letter and the colon
MaxWord == 2
Alphabet == {"a", ":"}
Words == UNION {[1..n -> Alphabet] : n \in 1..MaxWord}

\* ------------------------------------------------------------- constants
\* Accept header values of a request: at most MaxAccept of them
MaxAccept == 3
Opaque == "opaque"
AcceptValues == {"application/json", "text/html", Opaque}
AcceptLists == UNION {[1..n -> AcceptValues] : n \in 0..MaxAccept}

Unset == -1                     \* app.current_user_id never set on the session
NoQuery == -2                   \* the handler has not queried yet

BAD_REQUEST == 400
UNAUTHORIZED == 401
INTERNAL_SERVER_ERROR == 500
SEE_OTHER == 303
OK == 200

NoCred == [some |-> FALSE, username |-> <<>>, password |-> <<>>]
NoUser == [some |-> FALSE, id |-> 0, username |-> <<>>]
NoHeader == [scheme |-> "none", payload |-> <<>>]
NoCookie == [present |-> FALSE, payload |-> <<>>]

\* ------------------------------------------------------- pure functions
\* Authorization::basic(u, p) followed by encode(): "u:p" (then base64)
BasicEncode(u, p) == u \o <<":">> \o p

ColonPos(s) ==
  IF \E i \in 1..Len(s) : s[i] = ":"
  THEN CHOOSE i \in 1..Len(s) : s[i] = ":" /\ \A j \in 1..(i - 1) : s[j] /= ":"
  ELSE 0

\* Basic::decode: the text up to the first colon is the username
BasicDecode(s) ==
  LET k == ColonPos(s)
  IN  IF k = 0 THEN NoCred
      ELSE [some |-> TRUE, username |-> SubSeq(s, 1, k - 1),
            password |-> SubSeq(s, k + 1, Len(s))]

\* variant: a separator is fed to the hasher between the two
HashLoginSeparated(u, p) == u \o <<"|">> \o p

\* variant: the hasher is fed the password first
HashLoginSwapped(u, p) == p \o u

\* impl Into<InsertableDatabaseUser> for Login: username bytes, then password
HashLogin(u, p) == u \o p

\* variant: the username is not fed to the hasher
HashBasicSecretOnly(u, p) == p

\* impl Into<InsertableDatabaseUser> for Basic
HashBasic(u, p) == u \o p

Payloads == {BasicEncode(cr[1], cr[2]) : cr \in Creds}
Undecodable == <<"#">>
\* a cookie value shorter than the six bytes of the scheme prefix "Basic "
Truncated == <<"~">>

HeaderPayloads == {BasicEncode(<<"a">>, <<"c">>), BasicEncode(<<"a", "b">>, <<"c">>)}

Headers ==
  {NoHeader}
    \cup {[scheme |-> "Basic", payload |-> x] : x \in HeaderPayloads \cup {Undecodable}}
    \cup {[scheme |-> "Bearer", payload |-> <<"t">>]}

Cookies ==
  {NoCookie} \cup {[present |-> TRUE, payload |-> x] : x \in Payloads \cup {Undecodable}}

\* The (Authorization, sessionid) pairs requests carry: every cookie alone,
\* every header alone, and every header next to one decodable cookie.
CookieBesideHeader == [present |-> TRUE, payload |-> BasicEncode(<<"a">>, <<"b", "c">>)]

RequestInputs ==
  {hc \in Headers \X Cookies :
     hc[1] = NoHeader \/ hc[2] \in {NoCookie, CookieBesideHeader}}

\* logout reads the cookie jar and nothing else of the request
LogoutInputs == {hc \in RequestInputs : hc[1] = NoHeader}

\* routes whose handler takes a DatabaseConnection; logout takes a CookieJar
BinderRoutes == {"games", "signup", "login", "patch_login"}

\* variant: a header that fails to parse is treated like an absent one
ResolveFormatErrorIgnored(h) == FALSE

\* Outcome of the extraction at auth.rs:246-252 and 274-285, before any
\* pool access: a Basic credential, a rejection, or no credential.
ResolveFormatError(h) ==
  h.scheme /= "none" /\ ~(h.scheme = "Basic" /\ BasicDecode(h.payload).some)

\* variant: the cookie is consulted before the header
ResolveCredCookieFirst(h, c) ==
  IF c.present /\ BasicDecode(c.payload).some THEN BasicDecode(c.payload)
  ELSE IF h.scheme = "Basic" THEN BasicDecode(h.payload)
  ELSE NoCred

ResolveCred(h, c) ==
  IF h.scheme = "Basic" /\ BasicDecode(h.payload).some THEN BasicDecode(h.payload)
  ELSE IF c.present THEN BasicDecode(c.payload)
  ELSE NoCred

\* Basic::decode on the cookie value, reached when the header gave no
\* credential: it slices the value past the scheme prefix, which panics on a
\* value shorter than the prefix
CookieDecodePanics(h, c) ==
  /\ ~(h.scheme = "Basic" /\ BasicDecode(h.payload).some)
  /\ c.present /\ c.payload = Truncated

\* values app.current_user_id takes on a session: unset, 0, or a users.id
SessionVals == Unset..Cardinality({cr[1] : cr \in Creds})

\* ----------------------------------------------------------------- state
VARIABLES
  users,      \* the users table: rows [id, username, password (digest)];
              \* secret is history: the password the digest was derived from
  nextId,     \* next value of the users.id sequence
  idle,       \* pool: the idle connections, as the number of them per value
              \* of app.current_user_id on their session
  req         \* request task -> its extractor/handler state

vars == <<users, nextId, idle, req>>

IdleReq ==
  [pc |-> "idle", route |-> "none", header |-> NoHeader, cookie |-> NoCookie,
   cred |-> NoCred, user |-> NoUser, status |-> 0, signOut |-> FALSE,
   cause |-> "", holds |-> FALSE, var |-> Unset, stale |-> FALSE, stamped |-> FALSE,
   seen |-> NoQuery, lookups |-> 0, binds |-> 0, fate |-> "none",
   setCookie |-> <<>>, body |-> NoCred, clearCookie |-> FALSE,
   accept |-> "none", repr |-> "none", acceptValues |-> <<>>]

Init ==
  /\ users = {}
  /\ nextId = 1
  /\ idle = [v \in SessionVals |-> IF v = Unset THEN PoolSize ELSE 0]
  /\ req = [r \in Reqs |-> IdleReq]

\* A finished request's response is written out before any task runs again
NoResponsePending == \A r \in Reqs : req[r].pc /= "done"

\* an arriving request is served by the first free task
FirstFree(r) == \A q \in Reqs : TaskNo[q] < TaskNo[r] => req[q].pc /= "idle"

\* requests holding a connection, and the number of idle connections
Holders == {r \in Reqs : req[r].holds}

RECURSIVE CountIdle(_)
CountIdle(v) == IF v \notin SessionVals THEN 0 ELSE idle[v] + CountIdle(v + 1)

IdleCount == CountIdle(Unset)

\* session states found among the idle connections
IdleConns == {v \in SessionVals : idle[v] > 0}

\* unique index on users.username
UsernameTaken(u, exceptId) ==
  \E row \in users : row.username = u /\ row.id /= exceptId

\* DatabaseUser::query().filter(users::username.eq(u))
RowsByUsername(u) == {row \in users : row.username = u}

\* variant: unwrap_or(-1) in place of unwrap_or_default()
CallerIdNoDefault(user) == IF user.some THEN user.id ELSE Unset

\* user.as_ref().map(|u| u.id).unwrap_or_default()
CallerId(user) == IF user.some THEN user.id ELSE 0

\* variant: the lease is never given back
DropConnLeak(rq, v, broken) == idle

\* Drop of a bb8::PooledConnection at the end of its scope: a broken
\* connection is discarded (the pool opens a fresh session in its place),
\* any other goes back to the idle set with its session state v as it is.
DropConn(rq, v, broken) ==
  IF ~rq.holds THEN idle
  ELSE [idle EXCEPT ![IF broken THEN Unset ELSE v] = @ + 1]

\* impl IntoResponse for Error: (status_code, Json(self)), whatever the
\* Accept header of the request said
ErrorIntoResponse(rq, code) == [rq EXCEPT !.status = code, !.repr = "error_json"]

\* with_status_code / with_status_code_and_actions followed by `?`
Fail(r, code, signOut, cause) ==
  [ErrorIntoResponse(req[r], code) EXCEPT
     !.pc = "done", !.signOut = signOut,
     !.cause = cause, !.holds = FALSE, !.var = Unset, !.stale = FALSE]

\* ------------------------------------------------------------- actions
\* A request for a route whose handler takes a DatabaseConnection arrives.
\* Header and cookie parsing do not suspend, so the resolution up to the
\* first pool access is one step.  Which of the routes it is plays no part
\* before the handler runs, and is drawn there.
Arrive(r, inputs) ==
  /\ req[r].pc = "idle"
  /\ FirstFree(r)
  /\ NoResponsePending
  /\ \E hc \in inputs :
       LET h == hc[1]
           c == hc[2]
           base == [IdleReq EXCEPT !.route = "binder", !.header = h, !.cookie = c]
           cred == ResolveCred(h, c)
       IN  req' = [req EXCEPT ![r] =
             IF ResolveFormatError(h)
             THEN [ErrorIntoResponse(base, BAD_REQUEST) EXCEPT
                     !.pc = "done", !.signOut = TRUE,
                     !.cause = "Failed to parse basic auth header"]
             ELSE IF CookieDecodePanics(h, c)
             THEN [ErrorIntoResponse(base, INTERNAL_SERVER_ERROR) EXCEPT
                     !.pc = "done", !.cause = "panic"]
             ELSE IF cred.some
             THEN [base EXCEPT !.pc = "lookup_acquire", !.cred = cred]
             ELSE [base EXCEPT !.pc = "bind_acquire"]]
  /\ UNCHANGED <<users, nextId, idle>>

Start(r) == Arrive(r, RequestInputs)

\* variant: logout also resets the session state of the idle connections
LogoutResetsSessions(r) ==
  /\ req[r].pc = "idle"
  /\ FirstFree(r)
  /\ NoResponsePending
  /\ \E hc \in LogoutInputs :
       req' = [req EXCEPT ![r] =
                 [IdleReq EXCEPT !.route = "logout", !.header = hc[1], !.cookie = hc[2],
                                 !.pc = "done", !.status = SEE_OTHER,
                                 !.clearCookie = TRUE, !.repr = "redirect"]]
  /\ idle' = [v \in SessionVals |-> IF v = Unset THEN IdleCount ELSE 0]
  /\ UNCHANGED <<users, nextId>>

\* logout: takes the cookie jar only, no extractor touches the pool
Logout(r) ==
  /\ req[r].pc = "idle"
  /\ FirstFree(r)
  /\ NoResponsePending
  /\ \E hc \in LogoutInputs :
       req' = [req EXCEPT ![r] =
                 [IdleReq EXCEPT !.route = "logout", !.header = hc[1], !.cookie = hc[2],
                                 !.pc = "done", !.status = SEE_OTHER,
                                 !.clearCookie = TRUE, !.repr = "redirect"]]
  /\ UNCHANGED <<users, nextId, idle>>

\* pool.get() of the identity lookup
LookupAcquire(r) ==
  /\ req[r].pc = "lookup_acquire"
  /\ NoResponsePending
  /\ \E v \in IdleConns :
       /\ idle' = [idle EXCEPT ![v] = @ - 1]
       /\ req' = [req EXCEPT ![r].pc = "lookup_query", ![r].holds = TRUE,
                             ![r].var = v, ![r].lookups = @ + 1]
  /\ UNCHANGED <<users, nextId>>

LookupAcquireFail(r) ==
  /\ req[r].pc = "lookup_acquire"
  /\ NoResponsePending
  /\ req' = [req EXCEPT ![r] = Fail(r, INTERNAL_SERVER_ERROR, FALSE, "pool")]
  /\ UNCHANGED <<users, nextId, idle>>

\* variant: the lookup lease lives on into the binding acquisition
AfterResolveKeepsLease(rq, user) ==
  [rq EXCEPT !.pc = "bind_acquire", !.user = user]

\* What follows the lookup of a verified or absent identity
AfterResolve(rq, user) ==
  [rq EXCEPT !.pc = "bind_acquire", !.user = user, !.holds = FALSE, !.var = Unset]

\* variant: a credential that fails verification is dropped and the request
\* goes on without an identity
LookupQueryFallsToAnonymous(r) ==
  /\ req[r].pc = "lookup_query"
  /\ NoResponsePending
  /\ LET rows == RowsByUsername(req[r].cred.username)
         login_attempt == HashBasic(req[r].cred.username, req[r].cred.password)
     IN  /\ req' = [req EXCEPT ![r] =
               IF rows = {} THEN AfterResolve(req[r], NoUser)
               ELSE LET row == CHOOSE x \in rows : TRUE
                    IN  IF login_attempt /= row.password
                        THEN AfterResolve(req[r], NoUser)
                        ELSE AfterResolve(req[r], [some |-> TRUE, id |-> row.id,
                                                   username |-> row.username])]
         /\ idle' = DropConn(req[r], req[r].var, FALSE)
  /\ UNCHANGED <<users, nextId>>

\* variant: when the looked-up credential fails, the cookie's is tried
LookupQueryFallsBackToCookie(r) ==
  /\ req[r].pc = "lookup_query"
  /\ NoResponsePending
  /\ LET rows == RowsByUsername(req[r].cred.username)
         login_attempt == HashBasic(req[r].cred.username, req[r].cred.password)
         other == BasicDecode(req[r].cookie.payload)
         others == {x \in users : /\ req[r].cookie.present /\ other.some
                                  /\ x.username = other.username
                                  /\ x.password = HashBasic(other.username, other.password)}
     IN  /\ req' = [req EXCEPT ![r] =
               IF rows = {} THEN Fail(r, INTERNAL_SERVER_ERROR, TRUE, "NotFound")
               ELSE LET row == CHOOSE x \in rows : TRUE
                    IN  IF login_attempt /= row.password
                        THEN IF others = {}
                             THEN Fail(r, UNAUTHORIZED, TRUE, "Passwords didn't match")
                             ELSE LET o == CHOOSE x \in others : TRUE
                                  IN  AfterResolve(req[r], [some |-> TRUE, id |-> o.id,
                                                            username |-> o.username])
                        ELSE AfterResolve(req[r], [some |-> TRUE, id |-> row.id,
                                                   username |-> row.username])]
         /\ idle' = DropConn(req[r], req[r].var, FALSE)
  /\ UNCHANGED <<users, nextId>>

\* variant: the lookup lease is given back with its session state reset
LookupQueryResetsSession(r) ==
  /\ req[r].pc = "lookup_query"
  /\ NoResponsePending
  /\ LET rows == RowsByUsername(req[r].cred.username)
         login_attempt == HashBasic(req[r].cred.username, req[r].cred.password)
     IN  /\ req' = [req EXCEPT ![r] =
               IF rows = {} THEN Fail(r, INTERNAL_SERVER_ERROR, TRUE, "NotFound")
               ELSE LET row == CHOOSE x \in rows : TRUE
                    IN  IF login_attempt /= row.password
                        THEN Fail(r, UNAUTHORIZED, TRUE, "Passwords didn't match")
                        ELSE AfterResolve(req[r], [some |-> TRUE, id |-> row.id,
                                                   username |-> row.username])]
         /\ idle' = DropConn(req[r], req[r].var, TRUE)
  /\ UNCHANGED <<users, nextId>>

\* get_result of the lookup, the digest comparison, end of the `if let` scope
LookupQuery(r) ==
  /\ req[r].pc = "lookup_query"
  /\ NoResponsePending
  /\ LET rows == RowsByUsername(req[r].cred.username)
         login_attempt == HashBasic(req[r].cred.username, req[r].cred.password)
     IN  /\ req' = [req EXCEPT ![r] =
               IF rows = {} THEN Fail(r, INTERNAL_SERVER_ERROR, TRUE, "NotFound")
               ELSE LET row == CHOOSE x \in rows : TRUE
                    IN  IF login_attempt /= row.password
                        THEN Fail(r, UNAUTHORIZED, TRUE, "Passwords didn't match")
                        ELSE AfterResolve(req[r], [some |-> TRUE, id |-> row.id,
                                                   username |-> row.username])]
         /\ idle' = DropConn(req[r], req[r].var, FALSE)
  /\ UNCHANGED <<users, nextId>>

\* the lookup statement fails in the storage layer
LookupQueryFail(r) ==
  /\ req[r].pc = "lookup_query"
  /\ NoResponsePending
  /\ \E broken \in BOOLEAN : idle' = DropConn(req[r], req[r].var, broken)
  /\ req' = [req EXCEPT ![r] = Fail(r, INTERNAL_SERVER_ERROR, TRUE, "storage")]
  /\ UNCHANGED <<users, nextId>>

\* pool.get_owned() of the Binder
BindAcquire(r) ==
  /\ req[r].pc = "bind_acquire"
  /\ NoResponsePending
  /\ \E v \in IdleConns :
       /\ idle' = [idle EXCEPT ![v] = @ - 1]
       /\ req' = [req EXCEPT ![r].pc = "stamp", ![r].holds = TRUE, ![r].var = v,
                             ![r].binds = @ + 1,
                             ![r].stale = (v \notin {Unset, CallerId(req[r].user)})]
  /\ UNCHANGED <<users, nextId>>

\* variant: a failed acquisition is noted and attempted again
BindAcquireFailRetries(r) ==
  /\ req[r].pc = "bind_acquire"
  /\ NoResponsePending
  /\ req' = [req EXCEPT ![r].cause = "pool"]
  /\ UNCHANGED <<users, nextId, idle>>

BindAcquireFail(r) ==
  /\ req[r].pc = "bind_acquire"
  /\ NoResponsePending
  /\ req' = [req EXCEPT ![r] = Fail(r, INTERNAL_SERVER_ERROR, FALSE, "pool")]
  /\ UNCHANGED <<users, nextId, idle>>

\* variant: only a session that was never stamped is stamped
StampKeepsSession(r) ==
  /\ req[r].pc = "stamp"
  /\ NoResponsePending
  /\ req' = [req EXCEPT ![r].pc = "handler", ![r].stamped = TRUE,
                        ![r].var = IF @ = Unset THEN CallerId(req[r].user) ELSE @]
  /\ UNCHANGED <<users, nextId, idle>>

\* SELECT set_config('app.current_user_id', $1::text, false)
Stamp(r) ==
  /\ req[r].pc = "stamp"
  /\ NoResponsePending
  /\ req' = [req EXCEPT ![r].pc = "handler", ![r].stamped = TRUE,
                        ![r].var = CallerId(req[r].user)]
  /\ UNCHANGED <<users, nextId, idle>>

\* variant: the result of the stamping statement is not propagated
StampFailIgnored(r) ==
  /\ req[r].pc = "stamp"
  /\ NoResponsePending
  /\ req' = [req EXCEPT ![r].pc = "handler"]
  /\ UNCHANGED <<users, nextId, idle>>

\* the stamping statement fails: `?` returns and conn goes out of scope
StampFail(r) ==
  /\ req[r].pc = "stamp"
  /\ NoResponsePending
  /\ \E broken \in BOOLEAN :
       /\ idle' = DropConn(req[r], req[r].var, broken)
       /\ req' = [req EXCEPT ![r] =
                    [Fail(r, INTERNAL_SERVER_ERROR, FALSE, "stamp") EXCEPT
                       !.fate = IF broken THEN "discarded" ELSE "returned"]]
  /\ UNCHANGED <<users, nextId>>

\* ---------------------------------------------------------------- handlers
\* The handler owns the DatabaseConnection; it is dropped when the handler
\* returns.  rq is the request record as the handler leaves it.
Queried(r) ==
  [req[r] EXCEPT !.pc = "done", !.holds = FALSE, !.var = Unset, !.stale = FALSE,
                 !.seen = req[r].var]

Body(u, p) == [some |-> TRUE, username |-> u, password |-> p]

\* an extractor after DatabaseConnection (Accept header, body) rejects the
\* request: the handler body does not run, the bound connection is dropped
ExtractReject(r) ==
  /\ req[r].pc = "handler"
  /\ NoResponsePending
  /\ req' = [req EXCEPT ![r] = Fail(r, BAD_REQUEST, FALSE, "rejection")]
  /\ idle' = DropConn(req[r], req[r].var, FALSE)
  /\ UNCHANGED <<users, nextId>>

\* HtmlOrJsonHeader::decode: "application/json" or anything else
Accepts == {"Html", "Json"}

\* the routes whose success response is an HtmlOrJson value read Accept
AcceptOf(route) == IF route = "games" THEN Accepts ELSE {"none"}

\* variant: what the template wrote before it failed is sent as the page
HtmlOrJsonPartial(rq, accept, rendered) ==
  IF accept = "Json" THEN [rq EXCEPT !.status = OK, !.repr = "json"]
  ELSE IF rendered THEN [rq EXCEPT !.status = OK, !.repr = "html"]
  ELSE [rq EXCEPT !.status = OK, !.repr = "html_partial",
                  !.cause = "Failed to render template"]

\* impl IntoResponse for HtmlOrJsonOnce<T>: under Html the error-clearing
\* div followed by the template output, or the 500 error when the template
\* fails; under Json the serialized payload
HtmlOrJson(rq, accept, rendered) ==
  IF accept = "Json" THEN [rq EXCEPT !.status = OK, !.repr = "json"]
  ELSE IF rendered THEN [rq EXCEPT !.status = OK, !.repr = "html"]
  ELSE [ErrorIntoResponse(rq, INTERNAL_SERVER_ERROR) EXCEPT
          !.cause = "Failed to render template"]

\* games::get_all_games: one catalog query on the bound connection
Games(r) ==
  /\ req[r].pc = "handler"
  /\ NoResponsePending
  /\ \E accept \in Accepts, rendered \in BOOLEAN :
       req' = [req EXCEPT ![r] =
                 HtmlOrJson([Queried(r) EXCEPT !.route = "games", !.accept = accept],
                            accept, rendered)]
  /\ idle' = DropConn(req[r], req[r].var, FALSE)
  /\ UNCHANGED <<users, nextId>>

\* the statement of a handler fails in the storage layer
HandlerQueryFail(r) ==
  /\ req[r].pc = "handler"
  /\ NoResponsePending
  /\ \E broken \in BOOLEAN : idle' = DropConn(req[r], req[r].var, broken)
  /\ \E route \in BinderRoutes :
       \E accept \in AcceptOf(route) :
         req' = [req EXCEPT ![r] =
           [ErrorIntoResponse(Queried(r), IF route = "games"
                                          THEN INTERNAL_SERVER_ERROR ELSE BAD_REQUEST)
              EXCEPT !.route = route, !.cause = "storage", !.accept = accept]]
  /\ UNCHANGED <<users, nextId>>

\* variant: a taken username has its row overwritten by the new pair
signupOverwrites(r) ==
  /\ req[r].pc = "handler"
  /\ NoResponsePending
  /\ \E cr \in Creds :
       LET u == cr[1]
           p == cr[2]
           q == [Queried(r) EXCEPT !.route = "signup", !.body = Body(u, p)]
       IN  IF UsernameTaken(u, 0)
           THEN /\ users' = {IF row.username = u
                             THEN [row EXCEPT !.password = HashLogin(u, p), !.secret = p]
                             ELSE row : row \in users}
                /\ nextId' = nextId
                /\ req' = [req EXCEPT ![r] = ErrorIntoResponse(q, BAD_REQUEST)]
           ELSE /\ users' = users \cup
                      {[id |-> nextId, username |-> u, password |-> HashLogin(u, p),
                        secret |-> p]}
                /\ nextId' = nextId + 1
                /\ req' = [req EXCEPT ![r] =
                      [q EXCEPT !.status = SEE_OTHER, !.setCookie = BasicEncode(u, p),
                                !.repr = "redirect"]]
  /\ idle' = DropConn(req[r], req[r].var, FALSE)

signup(r) ==
  /\ req[r].pc = "handler"
  /\ NoResponsePending
  /\ \E cr \in Creds :
       LET u == cr[1]
           p == cr[2]
           q == [Queried(r) EXCEPT !.route = "signup", !.body = Body(u, p)]
       IN  IF UsernameTaken(u, 0)
           THEN /\ req' = [req EXCEPT ![r] = ErrorIntoResponse(q, BAD_REQUEST)]
                /\ UNCHANGED <<users, nextId>>
           ELSE /\ users' = users \cup
                      {[id |-> nextId, username |-> u, password |-> HashLogin(u, p),
                        secret |-> p]}
                /\ nextId' = nextId + 1
                /\ req' = [req EXCEPT ![r] =
                      [q EXCEPT !.status = SEE_OTHER, !.setCookie = BasicEncode(u, p),
                                !.repr = "redirect"]]
  /\ idle' = DropConn(req[r], req[r].var, FALSE)

login(r) ==
  /\ req[r].pc = "handler"
  /\ NoResponsePending
  /\ \E cr \in Creds :
       LET u == cr[1]
           p == cr[2]
           q == [Queried(r) EXCEPT !.route = "login", !.body = Body(u, p)]
           rows == RowsByUsername(u)
       IN  req' = [req EXCEPT ![r] =
             IF rows = {} THEN ErrorIntoResponse(q, BAD_REQUEST)
             ELSE IF (CHOOSE x \in rows : TRUE).password = HashLogin(u, p)
             THEN [q EXCEPT !.status = SEE_OTHER, !.setCookie = BasicEncode(u, p),
                            !.repr = "redirect"]
             ELSE ErrorIntoResponse(q, UNAUTHORIZED)]
  /\ idle' = DropConn(req[r], req[r].var, FALSE)
  /\ UNCHANGED <<users, nextId>>

\* variant: without a row of the caller's id, one is created
patch_loginUpserts(r) ==
  /\ req[r].pc = "handler"
  /\ NoResponsePending
  /\ \E cr \in Creds :
       LET u == cr[1]
           p == cr[2]
           q == [Queried(r) EXCEPT !.route = "patch_login", !.body = Body(u, p)]
           user_id == CallerId(req[r].user)
           target == {row \in users : row.id = user_id}
       IN  IF UsernameTaken(u, user_id)
           THEN /\ req' = [req EXCEPT ![r] = ErrorIntoResponse(q, BAD_REQUEST)]
                /\ UNCHANGED users
           ELSE /\ users' = (users \ target) \cup
                      {[id |-> user_id, username |-> u, password |-> HashLogin(u, p),
                        secret |-> p]}
                /\ req' = [req EXCEPT ![r] =
                      [q EXCEPT !.status = SEE_OTHER, !.setCookie = BasicEncode(u, p),
                                !.repr = "redirect"]]
  /\ idle' = DropConn(req[r], req[r].var, FALSE)
  /\ UNCHANGED nextId

\* variant: the username is updated, the stored digest is left as it was
patch_loginKeepsDigest(r) ==
  /\ req[r].pc = "handler"
  /\ NoResponsePending
  /\ \E cr \in Creds :
       LET u == cr[1]
           p == cr[2]
           q == [Queried(r) EXCEPT !.route = "patch_login", !.body = Body(u, p)]
           user_id == CallerId(req[r].user)
           target == {row \in users : row.id = user_id}
       IN  IF target /= {} /\ UsernameTaken(u, user_id)
           THEN /\ req' = [req EXCEPT ![r] = ErrorIntoResponse(q, BAD_REQUEST)]
                /\ UNCHANGED users
           ELSE /\ users' = (users \ target) \cup
                      {[row EXCEPT !.username = u] : row \in target}
                /\ req' = [req EXCEPT ![r] =
                      [q EXCEPT !.status = SEE_OTHER, !.setCookie = BasicEncode(u, p),
                                !.repr = "redirect"]]
  /\ idle' = DropConn(req[r], req[r].var, FALSE)
  /\ UNCHANGED nextId

patch_login(r) ==
  /\ req[r].pc = "handler"
  /\ NoResponsePending
  /\ \E cr \in Creds :
       LET u == cr[1]
           p == cr[2]
           q == [Queried(r) EXCEPT !.route = "patch_login", !.body = Body(u, p)]
           user_id == CallerId(req[r].user)
           target == {row \in users : row.id = user_id}
       IN  IF target /= {} /\ UsernameTaken(u, user_id)
           THEN /\ req' = [req EXCEPT ![r] = ErrorIntoResponse(q, BAD_REQUEST)]
                /\ UNCHANGED users
           ELSE /\ users' = (users \ target) \cup
                      {[id |-> row.id, username |-> u, password |-> HashLogin(u, p),
                        secret |-> p] : row \in target}
                /\ req' = [req EXCEPT ![r] =
                      [q EXCEPT !.status = SEE_OTHER, !.setCookie = BasicEncode(u, p),
                                !.repr = "redirect"]]
  /\ idle' = DropConn(req[r], req[r].var, FALSE)
  /\ UNCHANGED nextId

\* ------------------------------------------------------------ environment
SuspensionPoints == {"lookup_acquire", "lookup_query", "bind_acquire", "stamp", "handler"}

\* The transport drops the request future at a suspension point; every
\* local of the future is dropped with it and no response is produced: what
\* is kept of the request is that it was cancelled and whether it had been
\* bound.  A stamping statement that was in flight may or may not have taken
\* effect on the session.
Cancel(r) ==
  /\ req[r].pc \in SuspensionPoints
  /\ NoResponsePending
  /\ req' = [req EXCEPT ![r] = [IdleReq EXCEPT !.pc = "done", !.route = req[r].route,
                                               !.cause = "cancelled",
                                               !.binds = req[r].binds]]
  /\ IF req[r].pc = "stamp"
     THEN \E v \in {req[r].var, CallerId(req[r].user)} :
            idle' = DropConn(req[r], v, FALSE)
     ELSE idle' = DropConn(req[r], req[r].var, FALSE)
  /\ UNCHANGED <<users, nextId>>

\* the response has been written; the task slot serves the next request
Finish(r) ==
  /\ req[r].pc = "done"
  /\ req' = [req EXCEPT ![r] = IdleReq]
  /\ UNCHANGED <<users, nextId, idle>>

Next ==
  \E r \in Reqs :
    \/ Start(r) \/ Logout(r)
    \/ LookupAcquire(r) \/ LookupAcquireFail(r)
    \/ LookupQuery(r) \/ LookupQueryFail(r)
    \/ BindAcquire(r) \/ BindAcquireFail(r)
    \/ Stamp(r) \/ StampFail(r)
    \/ ExtractReject(r) \/ Games(r) \/ HandlerQueryFail(r)
    \/ signup(r) \/ login(r) \/ patch_login(r)
    \/ Cancel(r) \/ Finish(r)

Spec == Init /\ [][Next]_vars

\* ------------------------------------------------------- fair scheduling
\* Requests that are neither cancelled nor failed by the pool or the storage
\* layer.  The runtime polls every ready task again and the pool serves its
\* waiters in arrival order, so a step that is enabled again and again is
\* eventually taken.
LiveInputs ==
  {hc \in RequestInputs :
     /\ hc[2] = NoCookie
     /\ hc[1] \in {NoHeader, [scheme |-> "Basic", payload |-> BasicEncode(<<"a">>, <<"c">>)]}}

Enter(r) == Arrive(r, LiveInputs)

\* a step of the task serving request r
Step(r) ==
  \/ LookupAcquire(r) \/ LookupQuery(r)
  \/ BindAcquire(r) \/ Stamp(r)
  \/ Games(r) \/ signup(r)
  \/ Finish(r)

LiveNext == \E r \in Reqs : Enter(r) \/ Step(r)

Fairness == \A r \in Reqs : SF_vars(Step(r))

LiveSpec == Init /\ [][LiveNext]_vars /\ Fairness

\* ------------------------------------------------- cookie round trip
\* The cookies signup, login and patch_login issue for the pairs of words,
\* and the requests that present such a cookie, or one cut short, and
\* nothing else.
WordPairs == Words \X Words

IssuedCookies ==
  {[present |-> TRUE, payload |-> BasicEncode(p[1], p[2])] : p \in WordPairs}

PresentedCookies == IssuedCookies \cup {[present |-> TRUE, payload |-> Truncated]}

Present(r) == Arrive(r, {NoHeader} \X PresentedCookies)

CodecNext == \E r \in Reqs : Present(r) \/ Cancel(r) \/ Finish(r)

CodecSpec == Init /\ [][CodecNext]_vars

\* ------------------------------------------------------ content preference
\* variant: a value that is not text is passed over
DecodeSkipsOpaque(values, i, result) ==
  IF values[i] = Opaque THEN result
  ELSE IF values[i] = "application/json" THEN "Json" ELSE "Html"

\* one turn of the loop of HtmlOrJsonHeader::decode on the i-th value
DecodeValue(values, i, result) ==
  IF values[i] = Opaque THEN "Err"
  ELSE IF values[i] = "application/json" THEN "Json" ELSE "Html"

RECURSIVE DecodeFrom(_, _, _)
DecodeFrom(values, i, result) ==
  IF i > Len(values) \/ result = "Err" THEN result
  ELSE DecodeFrom(values, i + 1, DecodeValue(values, i, result))

\* HtmlOrJsonHeader::decode: Html to start with, every value in turn
HtmlOrJsonHeaderDecode(values) == DecodeFrom(values, 1, "Html")

\* an anonymous request for the catalog with its Accept header values
Offer(r) ==
  /\ req[r].pc = "idle"
  /\ FirstFree(r)
  /\ NoResponsePending
  /\ \E values \in AcceptLists :
       req' = [req EXCEPT ![r] =
                 [IdleReq EXCEPT !.route = "games", !.pc = "bind_acquire",
                                 !.acceptValues = values]]
  /\ UNCHANGED <<users, nextId, idle>>

\* games::get_all_games with its TypedHeader<HtmlOrJsonHeader> extractor:
\* a decode error rejects the request before the handler body runs
TypedGames(r) ==
  /\ req[r].pc = "handler"
  /\ NoResponsePending
  /\ LET accept == HtmlOrJsonHeaderDecode(req[r].acceptValues)
     IN  IF accept = "Err"
         THEN req' = [req EXCEPT ![r] =
                        [Fail(r, BAD_REQUEST, FALSE, "rejection") EXCEPT !.accept = accept]]
         ELSE \E rendered \in BOOLEAN :
                req' = [req EXCEPT ![r] =
                          HtmlOrJson([Queried(r) EXCEPT !.accept = accept],
                                     accept, rendered)]
  /\ idle' = DropConn(req[r], req[r].var, FALSE)
  /\ UNCHANGED <<users, nextId>>

AcceptNext ==
  \E r \in Reqs :
    Offer(r) \/ BindAcquire(r) \/ Stamp(r) \/ TypedGames(r) \/ Finish(r)

AcceptSpec == Init /\ [][AcceptNext]_vars

\* ------------------------------------------------------------ properties
InPipeline(r) == req[r].pc /= "idle" /\ req[r].route /= "logout"

ExpectedId(r) == IF req[r].user.some THEN req[r].user.id ELSE 0

HeaderCred(r) == BasicDecode(req[r].header.payload)
CookieCred(r) == BasicDecode(req[r].cookie.payload)

Stored(cr) ==
  \E row \in users : row.username = cr.username /\ row.secret = cr.password

\* C1: whenever a handler holds or has queried its DatabaseConnection, the
\* connection's app.current_user_id is the id of the identity resolved for
\* that very request, 0 when none was resolved; never an earlier request's id.
SessionMatchesIdentity ==
  \A r \in Reqs :
    /\ req[r].pc = "handler" => req[r].var = ExpectedId(r)
    /\ req[r].seen /= NoQuery => req[r].seen = ExpectedId(r)

\* an authenticated request's handler holds a connection that carried
\* another caller's id when it was leased
SessionMatchesIdentityWitness ==
  \E r \in Reqs : req[r].pc = "handler" /\ req[r].stale /\ req[r].user.some

\* C2: a handler runs, and a business query is issued, only after the
\* stamping statement succeeded on the leased connection; a request whose
\* stamping statement failed ends with 500 without any query.
StampPrecedesQueries ==
  \A r \in Reqs :
    /\ (req[r].pc = "handler" \/ req[r].seen /= NoQuery) => req[r].stamped
    /\ req[r].cause = "stamp" =>
         /\ req[r].pc = "done" /\ req[r].status = INTERNAL_SERVER_ERROR
         /\ req[r].seen = NoQuery /\ ~req[r].stamped

StampPrecedesQueriesWitness ==
  \E r \in Reqs : req[r].cause = "stamp" /\ req[r].binds = 1 /\ req[r].user.some

\* C3: with a decodable Basic header and a decodable sessionid cookie, the
\* credential looked up is the header's, and an identity that gets resolved
\* carries the header's username.
HeaderWins ==
  \A r \in Reqs :
    (/\ InPipeline(r)
     /\ req[r].header.scheme = "Basic" /\ HeaderCred(r).some
     /\ req[r].cookie.present /\ CookieCred(r).some) =>
      /\ req[r].cred = HeaderCred(r)
      /\ req[r].user.some => req[r].user.username = HeaderCred(r).username
      /\ req[r].pc \in {"bind_acquire", "stamp", "handler"} => req[r].user.some

\* header ("ab","c") and cookie ("a","bc"), both stored: the handler runs as "ab"
HeaderWinsWitness ==
  \E r \in Reqs :
    /\ req[r].pc = "handler"
    /\ req[r].header.scheme = "Basic" /\ req[r].cookie.present
    /\ HeaderCred(r).username /= CookieCred(r).username
    /\ Stored(HeaderCred(r)) /\ Stored(CookieCred(r))
    /\ req[r].user.username = HeaderCred(r).username

\* C4: a Basic header with an undecodable payload ends the request at once
\* with 400 and the sign-out action, whatever the cookie: no lookup lease,
\* no bind lease, no stamping, no identity.
MalformedBasicShortCircuits ==
  \A r \in Reqs :
    (/\ InPipeline(r)
     /\ req[r].header.scheme = "Basic" /\ ~HeaderCred(r).some) =>
      /\ req[r].pc = "done" /\ req[r].status = BAD_REQUEST /\ req[r].signOut
      /\ req[r].lookups = 0 /\ req[r].binds = 0
      /\ ~req[r].stamped /\ ~req[r].user.some /\ ~req[r].cred.some

MalformedBasicShortCircuitsWitness ==
  \E r \in Reqs :
    /\ req[r].status = BAD_REQUEST
    /\ req[r].header.scheme = "Basic" /\ ~HeaderCred(r).some
    /\ req[r].cookie.present /\ CookieCred(r).some /\ Stored(CookieCred(r))

\* C5: when the identity lookup of a request with credential (u, s) runs to
\* its end (no storage failure, no cancellation) and the row stored for u
\* was derived from (u, s), the request goes on to binding with an Identity
\* named u; when it was derived from another secret, the request ends with
\* 401 and no identity.
RoundTripStep ==
  \A r \in Reqs :
    (/\ req[r].pc = "lookup_query" /\ req'[r].pc /= "lookup_query"
     /\ req'[r].cause \notin {"storage", "cancelled"}) =>
      \A row \in users :
        row.username = req[r].cred.username =>
          IF row.secret = req[r].cred.password
          THEN /\ req'[r].pc = "bind_acquire"
               /\ req'[r].user = [some |-> TRUE, id |-> row.id, username |-> row.username]
          ELSE /\ req'[r].pc = "done" /\ req'[r].status = UNAUTHORIZED
               /\ ~req'[r].user.some

SignupRoundTrip == [][RoundTripStep]_vars

\* a request authenticated with the pair a stored row was derived from
SignupRoundTripWitness ==
  \E r \in Reqs :
    /\ req[r].pc = "bind_acquire" /\ req[r].user.some
    /\ req[r].user.username = req[r].cred.username
    /\ Stored(req[r].cred)

\* C6: a request without Authorization header and without sessionid cookie
\* takes no lookup lease and resolves no identity; it can only fail before
\* its handler by pool acquisition, stamping or cancellation, and its
\* handler runs on a connection stamped 0.
AnonymousPath ==
  \A r \in Reqs :
    (/\ InPipeline(r)
     /\ req[r].header = NoHeader /\ ~req[r].cookie.present) =>
      /\ ~req[r].cred.some /\ ~req[r].user.some /\ req[r].lookups = 0
      /\ req[r].pc = "handler" => req[r].var = 0
      /\ req[r].seen /= NoQuery => req[r].seen = 0
      /\ (req[r].pc = "done" /\ ~req[r].stamped) =>
           req[r].cause \in {"pool", "stamp", "cancelled"}

\* the anonymous handler runs on a connection an identified caller used before
AnonymousPathWitness ==
  \E r \in Reqs :
    /\ req[r].pc = "handler" /\ req[r].stale
    /\ req[r].header = NoHeader /\ ~req[r].cookie.present

\* C7: a request whose only credential is a Bearer header resolves without
\* error to no identity and goes on to binding as anonymous.
BearerFallsThrough ==
  \A r \in Reqs :
    (/\ InPipeline(r)
     /\ req[r].header.scheme = "Bearer" /\ ~req[r].cookie.present) =>
      /\ ~req[r].user.some
      /\ ~(req[r].pc = "done" /\ req[r].status = BAD_REQUEST /\ req[r].binds = 0)

\* C8: a well-formed credential whose username is not stored ends in
\* UNAUTHORIZED: 401 with the sign-out action.
UnknownUserIsUnauthorized ==
  \A r \in Reqs :
    req[r].cause = "NotFound" => req[r].status = UNAUTHORIZED /\ req[r].signOut

\* C9: a connection whose stamping statement failed is discarded, not put
\* back among the idle connections, and it is not leaked.
FailedBindDiscards ==
  \A r \in Reqs :
    req[r].cause = "stamp" =>
      /\ req[r].fate = "discarded"
      /\ ~req[r].holds
      /\ IdleCount + Cardinality(Holders) = PoolSize

\* C10: a connection is held only by a request that is in flight past an
\* acquisition; a request that ended (success, failure, cancellation) holds
\* none, every connection is either idle or held, and with no request in
\* flight all of them are idle.
NoLeaseOutlivesRequest ==
  /\ \A r \in Reqs : req[r].holds <=> req[r].pc \in {"lookup_query", "stamp", "handler"}
  /\ IdleCount + Cardinality(Holders) = PoolSize
  /\ (\A r \in Reqs : req[r].pc \in {"idle", "done"}) => IdleCount = PoolSize

\* a request was cancelled while it held its bound connection
NoLeaseOutlivesRequestWitness ==
  \E r \in Reqs :
    /\ req[r].cause = "cancelled" /\ req[r].binds = 1
    /\ IdleCount = PoolSize

\* a step in which the request issues a statement on the lease it holds:
\* the identity lookup on the lookup lease, a handler statement on the bound one
LookupIssued(r) ==
  /\ req[r].pc = "lookup_query" /\ req'[r].pc /= "lookup_query"
  /\ req'[r].cause /= "cancelled"

HandlerIssued(r) ==
  /\ req[r].pc = "handler" /\ req'[r].seen /= NoQuery

\* C11: every lease a request takes has the stamping statement executed on
\* it before any other statement is issued on it, the lease of the identity
\* lookup included.
EveryLeaseStamped ==
  [][\A r \in Reqs : (LookupIssued(r) \/ HandlerIssued(r)) => req[r].stamped]_vars

\* C12: a request whose stamping statement failed ends with a 5xx status
\* and the sign-out action.
StampFailureSignsOut ==
  \A r \in Reqs :
    req[r].cause = "stamp" =>
      /\ req[r].status >= INTERNAL_SERVER_ERROR
      /\ req[r].signOut

\* C13: a login by a caller without credential, for a username that is
\* stored, redirects and sets the cookie when the submitted pair is the one
\* the row was derived from, and otherwise answers 401 with the sign-out
\* action.
LoginScenario ==
  \A r \in Reqs :
    (/\ req[r].pc = "done" /\ req[r].route = "login" /\ req[r].cause = ""
     /\ req[r].header = NoHeader /\ ~req[r].cookie.present) =>
      \A row \in users :
        row.username = req[r].body.username =>
          IF row.secret = req[r].body.password
          THEN /\ req[r].status = SEE_OTHER
               /\ req[r].setCookie = BasicEncode(row.username, row.secret)
          ELSE /\ req[r].status = UNAUTHORIZED
               /\ req[r].signOut

FourXX(code) == code >= BAD_REQUEST /\ code < INTERNAL_SERVER_ERROR
FiveXX(code) == code >= INTERNAL_SERVER_ERROR

\* C14: a failure of resolution or binding answers with a status of the
\* class of its kind: 4xx for a malformed credential header and for a row
\* not found, 401 for a digest mismatch, 5xx for a failed pool acquisition,
\* a storage failure of the lookup and a failed stamping.
StatusClasses ==
  \A r \in Reqs :
    /\ req[r].cause = "Failed to parse basic auth header" => FourXX(req[r].status)
    /\ req[r].cause = "NotFound" => FourXX(req[r].status)
    /\ req[r].cause = "Passwords didn't match" => req[r].status = UNAUTHORIZED
    /\ req[r].cause \in {"pool", "stamp"} => FiveXX(req[r].status)
    /\ (req[r].cause = "storage" /\ req[r].binds = 0) => FiveXX(req[r].status)

\* C15: a failure response is the structured document for a caller that
\* prefers JSON and the rendered fragment alone for a caller that prefers
\* HTML.
FailureFollowsPreference ==
  \A r \in Reqs :
    (/\ req[r].pc = "done" /\ req[r].status >= BAD_REQUEST
     /\ req[r].accept \in Accepts) =>
      req[r].repr = IF req[r].accept = "Json" THEN "error_json" ELSE "error_html"

\* C16: the games listing answers 200 with the serialized payload under
\* Json and 200 with the rendered template under Html; when the template
\* fails under Html the answer is the 500 error document, and nothing of
\* the page.
SuccessFollowsPreference ==
  \A r \in Reqs :
    (/\ req[r].pc = "done" /\ req[r].route = "games"
     /\ req[r].cause \in {"", "Failed to render template"}) =>
      /\ req[r].accept = "Json" =>
           req[r].cause = "" /\ req[r].status = OK /\ req[r].repr = "json"
      /\ req[r].accept = "Html" =>
           \/ req[r].cause = "" /\ req[r].status = OK /\ req[r].repr = "html"
           \/ /\ req[r].cause = "Failed to render template"
              /\ req[r].status = INTERNAL_SERVER_ERROR /\ req[r].repr = "error_json"
      /\ req[r].accept \in Accepts

\* the template of an identified caller's listing failed to render
SuccessFollowsPreferenceWitness ==
  \E r \in Reqs :
    /\ req[r].pc = "done" /\ req[r].route = "games" /\ req[r].user.some
    /\ req[r].accept = "Html" /\ req[r].cause = "Failed to render template"
    /\ req[r].seen = req[r].user.id

\* C17: a request whose pool acquisition failed, at the lookup or at the
\* binding, has ended with 500: it holds no connection, took no lease at
\* the failing site or after it, was never stamped and issued no handler
\* statement.
PoolFailureEndsRequest ==
  \A r \in Reqs :
    req[r].cause = "pool" =>
      /\ req[r].pc = "done" /\ req[r].status = INTERNAL_SERVER_ERROR
      /\ ~req[r].holds /\ req[r].binds = 0
      /\ req[r].lookups = 0 \/ req[r].user.some
      /\ ~req[r].stamped /\ req[r].seen = NoQuery

\* the binding acquisition of an authenticated request failed
PoolFailureEndsRequestWitness ==
  \E r \in Reqs :
    req[r].cause = "pool" /\ req[r].user.some /\ req[r].lookups = 1

\* the two derivations agree, and with the secret fixed the digest tells
\* usernames apart, over all words
HashOverWords ==
  \A u1 \in Words, u2 \in Words, s \in Words :
    /\ HashLogin(u1, s) = HashBasic(u1, s)
    /\ HashLogin(u1, s) = u1 \o s
    /\ u1 /= u2 => HashLogin(u1, s) /= HashLogin(u2, s)

\* C18: the digest is the hash of the username bytes followed by the
\* secret bytes, the same from a Login body and from a Basic credential;
\* with one secret, different usernames have different digests.  Stated for
\* the stored rows and for all words.
HashOfUsernameThenSecret ==
  /\ HashOverWords
  /\ \A row \in users :
       /\ row.password = row.username \o row.secret
       /\ row.password = HashBasic(row.username, row.secret)
       /\ row.password = HashLogin(row.username, row.secret)
  /\ \A row1 \in users, row2 \in users :
       (row1.secret = row2.secret /\ row1.username /= row2.username) =>
         row1.password /= row2.password

\* two users share their secret, one username a prefix of the other, and a
\* request is authenticated by the digest of its Basic credential
HashOfUsernameThenSecretWitness ==
  /\ \E row1 \in users, row2 \in users :
       /\ row1.secret = row2.secret
       /\ Len(row1.username) < Len(row2.username)
       /\ SubSeq(row2.username, 1, Len(row1.username)) = row1.username
  /\ \E r \in Reqs : req[r].pc = "handler" /\ req[r].user.some

\* C19: a request that presents only the cookie issued for the submitted
\* pair (u, s) resolves to the credential (u, s).
CookieRoundTrip ==
  \A r \in Reqs, p \in WordPairs :
    (/\ InPipeline(r) /\ req[r].cause /= "cancelled"
     /\ req[r].header = NoHeader
     /\ req[r].cookie = [present |-> TRUE, payload |-> BasicEncode(p[1], p[2])]) =>
      req[r].cred = Body(p[1], p[2])

\* a step in which task r answers a logout request
LogoutStep(r) == req[r].pc = "idle" /\ req'[r].route = "logout"

\* C20: a logout answers with the removal of the sessionid cookie and a
\* redirect; it takes no lease, issues no statement, and leaves the users
\* table, the id sequence, every connection's session state and the other
\* requests as they are, so the row the cookie's credential authenticates
\* against is still stored.
LogoutOnlyClearsCookie ==
  [][\A r \in Reqs :
       LogoutStep(r) =>
         /\ req'[r].clearCookie /\ req'[r].setCookie = <<>>
         /\ req'[r].status = SEE_OTHER
         /\ req'[r].lookups = 0 /\ req'[r].binds = 0 /\ ~req'[r].holds
         /\ ~req'[r].stamped /\ req'[r].seen = NoQuery
         /\ users' = users /\ nextId' = nextId /\ idle' = idle
         /\ \A q \in Reqs \ {r} : req'[q] = req[q]]_vars

\* a logout that carried the cookie of a stored credential, answered while
\* the idle connection still carries an identified caller's id
LogoutOnlyClearsCookieWitness ==
  \E r \in Reqs :
    /\ req[r].pc = "done" /\ req[r].route = "logout" /\ req[r].clearCookie
    /\ req[r].cookie.present /\ CookieCred(r).some /\ Stored(CookieCred(r))
    /\ \E v \in IdleConns : v > 0

\* the id the identity lookup resolves a credential to against the stored
\* rows, 0 when the username is not stored or the digest differs
AuthenticatesAs(cr) ==
  LET rows == {row \in users : row.username = cr.username
                                /\ row.password = cr.username \o cr.password}
  IN  IF rows = {} THEN 0 ELSE (CHOOSE row \in rows : TRUE).id

\* C21 (as stated): once patch_login of an authenticated caller has
\* succeeded with the pair (u', s'), the caller's row holds u' and the
\* digest derived from (u', s'), the credential (u', s') resolves to the
\* caller's id, and the credential the caller came with, when it is another
\* pair, resolves to no identity at all.
PatchInvalidatesOldCredential ==
  \A r \in Reqs :
    (/\ req[r].pc = "done" /\ req[r].route = "patch_login"
     /\ req[r].status = SEE_OTHER /\ req[r].user.some) =>
      /\ \E row \in users :
           /\ row.id = req[r].user.id
           /\ row.username = req[r].body.username
           /\ row.password = req[r].body.username \o req[r].body.password
      /\ AuthenticatesAs(req[r].body) = req[r].user.id
      /\ req[r].cred /= req[r].body => AuthenticatesAs(req[r].cred) = 0

\* C21 (amended): as above, but the credential the caller came with, when
\* it is another pair, no longer resolves to the caller's id; it resolves to
\* another identity when another user holds the old username with the same
\* secret.
PatchRederivesDigest ==
  \A r \in Reqs :
    (/\ req[r].pc = "done" /\ req[r].route = "patch_login"
     /\ req[r].status = SEE_OTHER /\ req[r].user.some) =>
      /\ \E row \in users :
           /\ row.id = req[r].user.id
           /\ row.username = req[r].body.username
           /\ row.password = req[r].body.username \o req[r].body.password
      /\ AuthenticatesAs(req[r].body) = req[r].user.id
      /\ req[r].cred /= req[r].body => AuthenticatesAs(req[r].cred) /= req[r].user.id

\* a caller changed both its username and its secret
PatchRederivesDigestWitness ==
  \E r \in Reqs :
    /\ req[r].pc = "done" /\ req[r].route = "patch_login"
    /\ req[r].status = SEE_OTHER /\ req[r].user.some
    /\ req[r].cred.username /= req[r].body.username
    /\ req[r].cred.password /= req[r].body.password

\* the session values of all pooled connections, idle or leased
PoolBag == [v \in SessionVals |->
              idle[v] + Cardinality({q \in Reqs : req[q].holds /\ req[q].var = v})]

ResolutionFailures == {"Failed to parse basic auth header", "Passwords didn't match"}

\* C22: a request that ends in a malformed header or a digest mismatch
\* never acquired a binding connection and stamped nothing; the step that
\* ends it gives the lookup lease, if there is one, back with the session
\* value it was taken with, and no step of a request before its binding
\* acquisition, storage failures apart, changes the session value of any
\* pooled connection.
FailedResolutionLeavesPool ==
  [][\A r \in Reqs :
       /\ (req[r].pc /= "done" /\ req'[r].pc = "done"
            /\ req'[r].cause \in ResolutionFailures) =>
             /\ req'[r].binds = 0 /\ ~req'[r].stamped /\ req'[r].seen = NoQuery
             /\ users' = users
             /\ idle' = [idle EXCEPT ![req[r].var] = @ + (IF req[r].holds THEN 1 ELSE 0)]
             /\ PoolBag' = PoolBag
       /\ (req'[r] /= req[r] /\ req[r].binds = 0 /\ req'[r].binds = 0
            /\ req[r].pc \in {"idle", "lookup_acquire", "lookup_query"}
            /\ req'[r].cause \in ResolutionFailures \cup {""}) =>
             PoolBag' = PoolBag]_vars

\* a digest mismatch found on a connection another request had stamped
FailedResolutionLeavesPoolWitness ==
  \E r \in Reqs :
    /\ req[r].pc = "done" /\ req[r].cause = "Passwords didn't match"
    /\ req[r].lookups = 1 /\ req[r].binds = 0
    /\ \E v \in IdleConns : v > 0
    /\ IdleCount = PoolSize

Answered(r) == req[r].pc = "done" /\ req[r].route = "games" /\ req[r].accept /= "none"

Last(values) == values[Len(values)]

\* C23 (as stated): without an Accept header the preference is Html;
\* otherwise the last value alone decides: Json exactly when it is
\* application/json, Html when it is any other text, a decode error when it
\* is not text.
LastAcceptAloneDecides ==
  \A r \in Reqs : Answered(r) =>
    LET values == req[r].acceptValues
    IN  IF values = <<>> THEN req[r].accept = "Html"
        ELSE /\ req[r].accept = "Json" <=> Last(values) = "application/json"
             /\ req[r].accept = "Err" <=> Last(values) = Opaque

\* C23 (amended): without an Accept header the preference is Html; a value
\* that is not text, in whichever position, is a decode error and the
\* request is rejected; otherwise the last value alone decides: Json
\* exactly when it is application/json, Html for any other text.
LastReadableAcceptDecides ==
  \A r \in Reqs : Answered(r) =>
    LET values == req[r].acceptValues
    IN  IF values = <<>> THEN req[r].accept = "Html"
        ELSE IF \E i \in 1..Len(values) : values[i] = Opaque
        THEN req[r].accept = "Err" /\ req[r].status = BAD_REQUEST
        ELSE /\ req[r].accept = "Json" <=> Last(values) = "application/json"
             /\ req[r].accept = "Html" <=> Last(values) /= "application/json"
             /\ req[r].repr \in {"json", "html", "error_json"}
             /\ req[r].repr = "json" <=> req[r].accept = "Json"

\* a rejected request whose last value asked for JSON
LastReadableAcceptDecidesWitness ==
  \E r \in Reqs :
    /\ Answered(r) /\ req[r].accept = "Err"
    /\ Len(req[r].acceptValues) > 1
    /\ Last(req[r].acceptValues) = "application/json"

\* C24: a request waiting for a connection holds none, so every pooled
\* connection is idle or held by exactly one request past its acquisition;
\* and under fair scheduling every request waiting for the lookup lease gets
\* it and every request waiting for the binding lease gets it and is bound.
NoHoldAndWait ==
  /\ [](\A r \in Reqs :
          /\ req[r].pc \in {"lookup_acquire", "bind_acquire"} => ~req[r].holds
          /\ req[r].holds => req[r].pc \in {"lookup_query", "stamp", "handler"})
  /\ [](IdleCount + Cardinality(Holders) = PoolSize)
  /\ \A r \in Reqs :
       /\ (req[r].pc = "lookup_acquire") ~> (req[r].pc = "lookup_query")
       /\ (req[r].pc = "bind_acquire") ~> (req[r].pc = "handler" /\ req[r].stamped)

\* the only request in flight is bound after a lookup, both leases taken
\* from the same pool
NoHoldAndWaitWitness ==
  \E r \in Reqs :
    /\ req[r].pc = "handler" /\ req[r].stamped /\ req[r].user.some
    /\ req[r].lookups = 1 /\ req[r].binds = 1
    /\ IdleCount = PoolSize - 1
    /\ \A q \in Reqs \ {r} : req[q].pc = "idle"

\* a decodable Basic header whose pair fails against the stored row of its
\* username, next to a cookie whose pair is a stored user's
WrongHeaderValidCookie(r) ==
  /\ req[r].header.scheme = "Basic" /\ HeaderCred(r).some
  /\ req[r].cookie.present /\ CookieCred(r).some
  /\ RowsByUsername(HeaderCred(r).username) /= {}
  /\ AuthenticatesAs(HeaderCred(r)) = 0
  /\ AuthenticatesAs(CookieCred(r)) /= 0

\* C25: when the lookup of such a request returns, the request ends with
\* 401 and the sign-out action, unbound and without an identity: the valid
\* cookie is not consulted.
WrongHeaderNeverFallsBack ==
  [][\A r \in Reqs :
       (/\ req[r].pc = "lookup_query" /\ WrongHeaderValidCookie(r)
        /\ req'[r] /= req[r]
        /\ req'[r].cause \notin {"storage", "cancelled"}) =>
         /\ req[r].cred = HeaderCred(r)
         /\ req'[r].pc = "done" /\ req'[r].status = UNAUTHORIZED
         /\ req'[r].signOut /\ ~req'[r].user.some
         /\ req'[r].binds = 0 /\ ~req'[r].stamped
         /\ req'[r].setCookie = <<>>]_vars

\* header ("a","c") against the stored ("a","bc"), which is what the cookie holds
WrongHeaderNeverFallsBackWitness ==
  \E r \in Reqs :
    /\ req[r].pc = "done" /\ req[r].status = UNAUTHORIZED /\ req[r].signOut
    /\ req[r].lookups = 1
    /\ WrongHeaderValidCookie(r)

\* C26: a request without Authorization header whose sessionid cookie does
\* not decode to a credential resolves no identity and takes no lookup
\* lease; it can only fail before its handler by pool acquisition, stamping
\* or cancellation, and its handler runs on a connection stamped 0.
UndecodableCookieIsAnonymous ==
  \A r \in Reqs :
    (/\ InPipeline(r)
     /\ req[r].header = NoHeader /\ req[r].cookie.present
     /\ ~CookieCred(r).some) =>
      /\ ~req[r].cred.some /\ ~req[r].user.some /\ req[r].lookups = 0
      /\ req[r].pc = "handler" => req[r].var = 0
      /\ req[r].seen /= NoQuery => req[r].seen = 0
      /\ (req[r].pc = "done" /\ ~req[r].stamped) =>
           req[r].cause \in {"pool", "stamp", "cancelled"}

\* pairs of words with the same concatenation have the same digest
DigestOverWords ==
  \A u1 \in Words, s1 \in Words, u2 \in Words, s2 \in Words :
    u1 \o s1 = u2 \o s2 =>
      /\ HashLogin(u1, s1) = HashLogin(u2, s2)
      /\ HashBasic(u1, s1) = HashBasic(u2, s2)
      /\ HashLogin(u1, s1) = HashBasic(u2, s2)

\* C27: the digest depends on the concatenation of username and secret
\* only: two pairs with the same concatenation have the same digest, over
\* all words and among the stored users.
DigestOfConcatenation ==
  /\ DigestOverWords
  /\ \A row1 \in users, row2 \in users :
       row1.username \o row1.secret = row2.username \o row2.secret =>
         row1.password = row2.password

\* two stored users with different usernames share a digest
DigestOfConcatenationWitness ==
  \E row1 \in users, row2 \in users :
    /\ row1.username /= row2.username
    /\ row1.secret /= row2.secret
    /\ row1.password = row2.password

BodyRoutes == {"signup", "login", "patch_login"}

\* C28: a request whose body was read by signup, login or patch_login, or
\* that was given a cookie, was bound and stamped first, and the credential
\* it carried, if any, had been verified; a request whose credential failed
\* verification ends with the resolver's 401 or 500 and the sign-out action,
\* its body unread, no statement of a handler run and no cookie set.
HandlersRunAfterBinder ==
  \A r \in Reqs :
    /\ (req[r].body.some \/ req[r].setCookie /= <<>>
           \/ (req[r].route \in BodyRoutes /\ req[r].cause /= "cancelled")) =>
         /\ req[r].pc = "done" /\ req[r].stamped /\ req[r].binds = 1
         /\ req[r].seen = CallerId(req[r].user)
         /\ req[r].cred.some => (req[r].user.some /\ req[r].lookups = 1
                                  /\ req[r].user.username = req[r].cred.username)
    /\ (req[r].pc = "done" /\ req[r].cause \in {"Passwords didn't match", "NotFound"}) =>
         /\ req[r].status \in {UNAUTHORIZED, INTERNAL_SERVER_ERROR} /\ req[r].signOut
         /\ req[r].route \notin BodyRoutes /\ ~req[r].body.some
         /\ req[r].setCookie = <<>> /\ req[r].seen = NoQuery
         /\ req[r].binds = 0 /\ ~req[r].stamped

\* a cookie alone, for a stored username with another secret, ends the
\* request whatever its body would have been
HandlersRunAfterBinderWitness ==
  \E r \in Reqs :
    /\ req[r].pc = "done" /\ req[r].cause = "Passwords didn't match"
    /\ req[r].header = NoHeader /\ req[r].cookie.present
    /\ RowsByUsername(req[r].cred.username) /= {}
    /\ req[r].setCookie = <<>>

\* C29: patch_login run for an anonymous caller, the storage layer not
\* failing, leaves the users table as it is, answers with the redirect and
\* sets the cookie to the encoding of the submitted pair; and the lookup of
\* a credential whose username is not stored, when it returns, ends the
\* request without an identity.
AnonymousPatchChangesNothing ==
  [][\A r \in Reqs :
       /\ (/\ req[r].pc = "handler" /\ ~req[r].user.some
            /\ req'[r].route = "patch_login" /\ req'[r].cause /= "storage") =>
             /\ users' = users
             /\ \A row \in users : row.id /= 0
             /\ req'[r].pc = "done" /\ req'[r].status = SEE_OTHER
             /\ req'[r].seen = 0
             /\ req'[r].setCookie =
                  BasicEncode(req'[r].body.username, req'[r].body.password)
       /\ (/\ req[r].pc = "lookup_query" /\ req'[r] /= req[r]
            /\ req'[r].cause \notin {"storage", "cancelled"}
            /\ RowsByUsername(req[r].cred.username) = {}) =>
             /\ req'[r].pc = "done" /\ ~req'[r].user.some
             /\ req'[r].status \in {UNAUTHORIZED, INTERNAL_SERVER_ERROR}
             /\ req'[r].binds = 0]_vars

\* an anonymous caller was given the cookie of a pair whose username nobody has
AnonymousPatchChangesNothingWitness ==
  \E r \in Reqs :
    /\ req[r].pc = "done" /\ req[r].route = "patch_login"
    /\ ~req[r].user.some /\ req[r].status = SEE_OTHER
    /\ req[r].setCookie = BasicEncode(req[r].body.username, req[r].body.password)
    /\ RowsByUsername(req[r].body.username) = {}
    /\ users /= {}

\* C30: when signup answers 400, the users table is as it was and no
\* cookie is set; when the reason is that the username is taken, the row of
\* that username still holds the digest of its own secret.
FailedSignupChangesNothing ==
  [][\A r \in Reqs :
       (/\ req[r].pc = "handler" /\ req'[r].route = "signup"
        /\ req'[r].status = BAD_REQUEST) =>
         /\ users' = users /\ nextId' = nextId
         /\ req'[r].pc = "done" /\ req'[r].setCookie = <<>>
         /\ req'[r].cause /= "storage" =>
               \E row \in users' :
                 /\ row.username = req'[r].body.username
                 /\ row.password = HashLogin(row.username, row.secret)
                 /\ AuthenticatesAs([username |-> row.username,
                                     password |-> row.secret])' = row.id]_vars

\* signup for a taken username with another secret was refused
FailedSignupChangesNothingWitness ==
  \E r \in Reqs :
    /\ req[r].pc = "done" /\ req[r].route = "signup"
    /\ req[r].status = BAD_REQUEST /\ req[r].cause = ""
    /\ \E row \in users : /\ row.username = req[r].body.username
                            /\ row.secret /= req[r].body.password

====
